---- MODULE Spec2Model ----
(***************************************************************************)
(* Model of build_resume_ler_rs.py: a .docx resume is classified into a    *)
(* title and heading groups (parse_docx), turned into an LER-RS credential *)
(* (build_vc, to_position, to_edu, to_comp, to_ach) and null-normalized    *)
(* (replace_nulls).                                                        *)
(*                                                                         *)
(* A Python str is a sequence of one-character strings; the en dash U+2013 *)
(* is written "EN".  A literal that the program only copies into the       *)
(* credential (a URL, a type name, a timestamp) is a sequence of one       *)
(* piece.  A Python value that may be None, a list or a dict is a tagged   *)
(* record: JNull, JStr(s), JList(xs), JDict(f).                            *)
(***************************************************************************)
EXTENDS Integers, Sequences, FiniteSets, TLC

VARIABLES
    pc,       \* position of the run: which call comes next
    text,     \* argument of to_position
    obj,      \* argument of replace_nulls
    ret,      \* value returned by the function under test
    paras,    \* doc.paragraphs consumed so far by the loop of parse_docx
    name,     \* parse_docx: name
    current,  \* parse_docx: current
    out,      \* parse_docx: out (insertion-ordered dict)
    args,     \* argparse namespace handed to build_vc
    vc,       \* main: vc
    clock,    \* the two readings of the clock build_vc takes
    nextId    \* number of identifiers new_uuid has handed out

vars == <<pc, text, obj, ret, paras, name, current, out, args, vc, clock, nextId>>

(***************************************************************************)
(* Bounds                                                                  *)
(***************************************************************************)
MaxChunks == 5    \* a to_position text is at most this many chunks
MaxParas  == 4    \* paragraphs of a document
MaxDepth  == 3    \* nesting depth of a replace_nulls argument

(***************************************************************************)
(* Python values                                                           *)
(***************************************************************************)
JNull     == [t |-> "null"]
JStr(s)   == [t |-> "str", s |-> s]
JList(xs) == [t |-> "list", items |-> xs]
JDict(f)  == [t |-> "dict", fields |-> f]

\* truth value of a value that is None or a str
Truthy(v) == v.t = "str" /\ v.s # <<>>

\* the Python idiom  s or None  for a str s
OrNone(s) == IF s # <<>> THEN JStr(s) ELSE JNull

(***************************************************************************)
(* Characters                                                              *)
(***************************************************************************)
UpperSeq == <<"A","B","C","D","E","F","G","H","I","J","K","L","M",
              "N","O","P","Q","R","S","T","U","V","W","X","Y","Z">>
LowerSeq == <<"a","b","c","d","e","f","g","h","i","j","k","l","m",
              "n","o","p","q","r","s","t","u","v","w","x","y","z">>
DigitSeq == <<"0","1","2","3","4","5","6","7","8","9">>

Range(seq) == {seq[i] : i \in 1..Len(seq)}

UpperSet == Range(UpperSeq)
LowerSet == Range(LowerSeq)
DigitSet == Range(DigitSeq)

\* the lower-case letter of every upper-case letter
LowerOf == [c \in UpperSet |-> LowerSeq[CHOOSE i \in 1..Len(UpperSeq) : UpperSeq[i] = c]]

isupper_c(c) == c \in UpperSet
islower_c(c) == c \in LowerSet
isalpha_c(c) == isupper_c(c) \/ islower_c(c)
isdigit_c(c) == c \in DigitSet
isspace_c(c) == c \in {" ", "\t", "\n"}
isword_c(c)  == isalpha_c(c) \/ isdigit_c(c) \/ c = "_"     \* regex \w
isdash_c(c)  == c \in {"-", "EN"}                           \* regex [EN-]

lower_c(c) == IF isupper_c(c) THEN LowerOf[c] ELSE c

(***************************************************************************)
(* str methods                                                             *)
(***************************************************************************)
lower(s) == [i \in 1..Len(s) |-> lower_c(s[i])]

RECURSIVE lstrip(_)
lstrip(s) == IF s # <<>> /\ isspace_c(Head(s)) THEN lstrip(Tail(s)) ELSE s

RECURSIVE rstrip(_)
rstrip(s) ==
    IF s # <<>> /\ isspace_c(s[Len(s)]) THEN rstrip(SubSeq(s, 1, Len(s) - 1)) ELSE s

strip(s) == rstrip(lstrip(s))

startswith(s, p) == Len(p) <= Len(s) /\ SubSeq(s, 1, Len(p)) = p

\* s.split(): the maximal runs of non-whitespace characters, in order
RECURSIVE split(_)
split(s) ==
    LET r == lstrip(s)
        n == IF \E i \in 1..Len(r) : isspace_c(r[i])
             THEN (CHOOSE i \in 1..Len(r) :
                       isspace_c(r[i]) /\ \A j \in 1..(i - 1) : ~isspace_c(r[j])) - 1
             ELSE Len(r)
    IN  IF r = <<>> THEN <<>>
        ELSE <<SubSeq(r, 1, n)>> \o split(SubSeq(r, n + 1, Len(r)))

\* s.isupper(): no lower-case letter and at least one upper-case letter
isupper(s) ==
    /\ \A i \in 1..Len(s) : ~islower_c(s[i])
    /\ \E i \in 1..Len(s) : isupper_c(s[i])

(***************************************************************************)
(* new_uuid: the n-th identifier handed out, "urn:uuid:" and a value that  *)
(* differs for every n.                                                    *)
(***************************************************************************)
RECURSIVE Decimal(_)
Decimal(n) ==
    IF n < 10 THEN <<DigitSeq[n + 1]>> ELSE Decimal(n \div 10) \o <<DigitSeq[(n % 10) + 1]>>

new_uuid(n) == <<"u","r","n",":","u","u","i","d",":">> \o Decimal(n)

(***************************************************************************)
(* ROLE_RE and to_position                                                 *)
(***************************************************************************)
RoleWords ==
    { <<"m","a","n","a","g","e","r">>,
      <<"d","i","r","e","c","t","o","r">>,
      <<"e","n","g","i","n","e","e","r">>,
      <<"d","e","v","e","l","o","p","e","r">>,
      <<"a","n","a","l","y","s","t">>,
      <<"l","e","a","d">>,
      <<"o","f","f","i","c","e","r">>,
      <<"c","o","n","s","u","l","t","a","n","t">>,
      <<"s","p","e","c","i","a","l","i","s","t">> }

\* \b(w)\b matches s at position i, ignoring case
RoleAt(s, w, i) ==
    /\ i + Len(w) - 1 <= Len(s)
    /\ lower(SubSeq(s, i, i + Len(w) - 1)) = w
    /\ (i = 1 \/ ~isword_c(s[i - 1]))
    /\ (i + Len(w) - 1 = Len(s) \/ ~isword_c(s[i + Len(w)]))

\* ROLE_RE.search(s) is not None
ROLE_RE(s) == \E w \in RoleWords : \E i \in 1..Len(s) : RoleAt(s, w, i)

\* \s[EN-]\s matches s at position i
SepAt(s, i) ==
    /\ i + 2 <= Len(s)
    /\ isspace_c(s[i]) /\ isdash_c(s[i + 1]) /\ isspace_c(s[i + 2])

RECURSIVE FindSep(_, _)
FindSep(s, i) ==
    IF i + 2 > Len(s) THEN 0 ELSE IF SepAt(s, i) THEN i ELSE FindSep(s, i + 1)

\* variant: the split is made at the last separator
re_split_last(s) ==
    LET I == {i \in 1..Len(s) : SepAt(s, i)}
        i == CHOOSE j \in I : \A k \in I : k <= j
    IN  IF I = {} THEN <<s>> ELSE <<SubSeq(s, 1, i - 1), SubSeq(s, i + 3, Len(s))>>

\* re.split(r"\s[EN-]\s", s, 1)
re_split(s) ==
    LET i == FindSep(s, 1)
    IN  IF i = 0 THEN <<s>> ELSE <<SubSeq(s, 1, i - 1), SubSeq(s, i + 3, Len(s))>>

Position(id, jt, org, desc) ==
    JDict([id |-> JStr(id), type |-> JStr(<<"P","o","s","i","t","i","o","n">>),
           jobTitle |-> jt, organization |-> org, description |-> desc])

\* variant: the left side is the job title unless only the right side has a role
to_position_default_left(s, n) ==
    LET parts == re_split(s)
        left  == parts[1]
        right == parts[2]
    IN  IF Len(parts) = 2
        THEN IF ~ROLE_RE(left) /\ ROLE_RE(right)
             THEN Position(new_uuid(n), OrNone(right), OrNone(left), OrNone(s))
             ELSE Position(new_uuid(n), OrNone(left), OrNone(right), OrNone(s))
        ELSE Position(new_uuid(n), OrNone(s), JNull, OrNone(s))

\* to_position(text), new_uuid having been called n times
to_position(s, n) ==
    LET parts == re_split(s)
        left  == parts[1]
        right == parts[2]
    IN  IF Len(parts) = 2
        THEN IF ROLE_RE(left)
             THEN Position(new_uuid(n), OrNone(left), OrNone(right), OrNone(s))
             ELSE Position(new_uuid(n), OrNone(right), OrNone(left), OrNone(s))
        ELSE Position(new_uuid(n), OrNone(s), JNull, OrNone(s))

(***************************************************************************)
(* to_edu, to_comp, to_ach, MAKE_OBJ                                       *)
(***************************************************************************)
to_edu(s, n) ==
    JDict([id |-> JStr(new_uuid(n)), type |-> JStr(<<"E","d","u","c","a","t","i","o","n">>),
           description |-> OrNone(s)])

to_comp(s, n) ==
    JDict([id |-> JStr(new_uuid(n)), type |-> JStr(<<"C","o","m","p","e","t","e","n","c","y">>),
           name |-> OrNone(s)])

to_ach(s, n) ==
    JDict([id |-> JStr(new_uuid(n)), type |-> JStr(<<"A","c","h","i","e","v","e","m","e","n","t">>),
           description |-> OrNone(s)])

MAKE_OBJ(key, s, n) ==
    CASE key = "positionHistory"  -> to_position(s, n)
      [] key = "educationHistory" -> to_edu(s, n)
      [] key = "competency"       -> to_comp(s, n)
      [] key = "achievements"     -> to_ach(s, n)

(***************************************************************************)
(* SECTION_MAP and canonical                                               *)
(***************************************************************************)
SECTION_MAP ==
    { [head |-> <<"e","x","p","e","r","i","e","n","c","e">>,              key |-> "positionHistory"],
      [head |-> <<"p","r","o","f","e","s","s","i","o","n","a","l"," ","e","x","p","e","r","i","e","n","c","e">>, key |-> "positionHistory"],
      [head |-> <<"w","o","r","k"," ","e","x","p","e","r","i","e","n","c","e">>,         key |-> "positionHistory"],
      [head |-> <<"w","o","r","k"," ","h","i","s","t","o","r","y">>,            key |-> "positionHistory"],
      [head |-> <<"e","m","p","l","o","y","m","e","n","t"," ","h","i","s","t","o","r","y">>,      key |-> "positionHistory"],
      [head |-> <<"e","m","p","l","o","y","m","e","n","t">>,              key |-> "positionHistory"],
      [head |-> <<"e","d","u","c","a","t","i","o","n">>,               key |-> "educationHistory"],
      [head |-> <<"a","c","a","d","e","m","i","c"," ","b","a","c","k","g","r","o","u","n","d">>,     key |-> "educationHistory"],
      [head |-> <<"s","k","i","l","l","s">>,                  key |-> "competency"],
      [head |-> <<"c","o","m","p","e","t","e","n","c","i","e","s">>,            key |-> "competency"],
      [head |-> <<"a","w","a","r","d","s">>,                  key |-> "achievements"],
      [head |-> <<"h","o","n","o","r","s">>,                  key |-> "achievements"] }

CanonicalKeys == <<"positionHistory", "educationHistory", "competency", "achievements">>

\* the result of dict.get for a missing key
NoKey == "None"

\* SECTION_MAP.get(h)
SECTION_MAP_get(h) ==
    IF \E e \in SECTION_MAP : e.head = h
    THEN (CHOOSE e \in SECTION_MAP : e.head = h).key
    ELSE NoKey

\* variant: the heading is looked up without lower-casing
canonical_case_sensitive(head) == SECTION_MAP_get(strip(head))

\* SECTION_MAP.get(head.lower().strip())
canonical(head) == SECTION_MAP_get(strip(lower(head)))

(***************************************************************************)
(* looks_like_heading                                                      *)
(***************************************************************************)
looks_like_heading(txt) ==
    /\ isupper(txt)
    /\ 2 <= Len(split(txt)) /\ Len(split(txt)) <= 5
    /\ Cardinality({i \in 1..Len(txt) : isalpha_c(txt[i])}) >= 4

(***************************************************************************)
(* dict[str, list[str]]: a sequence of [k, v] in insertion order           *)
(***************************************************************************)
DictHas(d, k) == \E i \in 1..Len(d) : d[i].k = k
DictPos(d, k) == CHOOSE i \in 1..Len(d) : d[i].k = k
DictGet(d, k) == d[DictPos(d, k)].v

\* d[k] = v : an existing key keeps its place
DictSet(d, k, v) ==
    IF DictHas(d, k) THEN [d EXCEPT ![DictPos(d, k)].v = v]
    ELSE Append(d, [k |-> k, v |-> v])

(***************************************************************************)
(* parse_docx: one iteration of the loop over doc.paragraphs               *)
(***************************************************************************)
\* p.style.name if p.style else "", lower-cased
style_of(p) == lower(IF p.style.t = "str" THEN p.style.s ELSE <<>>)

is_title_style(style) == style = <<"t","i","t","l","e">> \/ startswith(style, <<"h","e","a","d","i","n","g"," ","1">>)

is_heading(style, txt) ==
    \/ startswith(style, <<"h","e","a","d","i","n","g">>) /\ ~startswith(style, <<"h","e","a","d","i","n","g"," ","1">>)
    \/ looks_like_heading(txt)

\* variant: every title-styled paragraph becomes the title
capture_title_last(nm, txt) == JStr(txt)

\* if name is None: name = txt
capture_title(nm, txt) == IF nm = JNull THEN JStr(txt) ELSE nm

\* variant: a heading met again keeps its list
open_group_keep(o, txt) == IF DictHas(o, txt) THEN o ELSE DictSet(o, txt, <<>>)

\* out[current] = []
open_group(o, txt) == DictSet(o, txt, <<>>)

\* out[current].append(txt)
append_body(o, cur, txt) == DictSet(o, cur, Append(DictGet(o, cur), txt))

parse_docx_step(nm, cur, o, p) ==
    LET txt   == strip(p.text)
        style == style_of(p)
    IN  IF txt = <<>> THEN [name |-> nm, current |-> cur, out |-> o]
        ELSE IF is_title_style(style)
        THEN [name |-> capture_title(nm, txt), current |-> cur, out |-> o]
        ELSE IF is_heading(style, txt)
        THEN [name |-> nm, current |-> JStr(txt), out |-> open_group(o, txt)]
        ELSE IF Truthy(cur)
        THEN [name |-> nm, current |-> cur, out |-> append_body(o, cur.s, txt)]
        ELSE [name |-> nm, current |-> cur, out |-> o]

(***************************************************************************)
(* build_vc                                                                *)
(***************************************************************************)
LER_RS_CONTEXT ==
    <<"http://schema.hropenstandards.org/4.5RC/recruiting/json/ler-rs/ProvisionalVerifiableCredentialResumeType.json">>

LER_RS_SCHEMA ==
    JDict([id |-> JStr(LER_RS_CONTEXT), type |-> JStr(<<"JsonSchemaValidator2018">>)])

\* v or None, for v None or a str
or_none(v) == IF Truthy(v) THEN v ELSE JNull

\* variant: the title wins over the options
personal_title_first(nm, a) ==
    LET toks == split(nm.s)
    IN  JDict([givenName  |-> IF Truthy(nm) THEN JStr(toks[1]) ELSE or_none(a.given_name),
               familyName |-> IF Truthy(nm) THEN JStr(toks[Len(toks)])
                              ELSE or_none(a.family_name),
               email      |-> or_none(a.email),
               phone      |-> or_none(a.phone)])

\* the personal dict of build_vc
personal(nm, a) ==
    LET toks   == split(nm.s)
        given  == IF Truthy(a.given_name) THEN a.given_name
                  ELSE IF Truthy(nm) THEN JStr(toks[1]) ELSE JNull
        family == IF Truthy(a.family_name) THEN a.family_name
                  ELSE IF Truthy(nm) /\ Len(toks) > 1 THEN JStr(toks[Len(toks)]) ELSE JNull
    IN  JDict([givenName  |-> given,
               familyName |-> family,
               email      |-> or_none(a.email),
               phone      |-> or_none(a.phone)])

\* variant: the objects of one heading share an identifier
RECURSIVE make_objs_one_id(_, _, _)
make_objs_one_id(key, ps, n) ==
    IF ps = <<>> THEN <<>>
    ELSE IF Head(ps) = <<>> THEN make_objs_one_id(key, Tail(ps), n)
    ELSE <<MAKE_OBJ(key, Head(ps), n)>> \o make_objs_one_id(key, Tail(ps), n)

\* [MAKE_OBJ[key](txt) for txt in paras if txt], new_uuid having been called n times
RECURSIVE make_objs(_, _, _)
make_objs(key, ps, n) ==
    IF ps = <<>> THEN <<>>
    ELSE IF Head(ps) = <<>> THEN make_objs(key, Tail(ps), n)
    ELSE <<MAKE_OBJ(key, Head(ps), n)>> \o make_objs(key, Tail(ps), n + 1)

\* variant: the list of a key is replaced
setdefault_replace(f, key, objs) == (key :> JList(objs)) @@ f

\* subject.setdefault(key, []).extend(objs)
setdefault_extend(f, key, objs) ==
    IF key \in DOMAIN f THEN [f EXCEPT ![key] = JList(@.items \o objs)]
    ELSE f @@ (key :> JList(objs))

\* if objs: subject.setdefault(key, []).extend(objs)
add_objs(f, key, objs) == IF objs # <<>> THEN setdefault_extend(f, key, objs) ELSE f

\* for head, paras in sections.items(): ...
RECURSIVE build_sections(_, _, _)
build_sections(sections, f, n) ==
    IF sections = <<>> THEN [fields |-> f, n |-> n]
    ELSE LET key  == canonical(sections[1].k)
             objs == make_objs(key, sections[1].v, n)
         IN  IF key = NoKey THEN build_sections(Tail(sections), f, n)
             ELSE build_sections(Tail(sections), add_objs(f, key, objs), n + Len(objs))

\* variant: no fallback record is injected
guarantee_absent(f, n) == [fields |-> f, n |-> n]

\* guarantee at least ONE section with one object
guarantee(f, n) ==
    IF ~\E i \in 1..Len(CanonicalKeys) : CanonicalKeys[i] \in DOMAIN f
    THEN [fields |-> f @@ ("positionHistory" :>
                               JList(<<Position(new_uuid(n), JNull, JNull, JNull)>>)),
          n |-> n + 1]
    ELSE [fields |-> f, n |-> n]

\* build_vc(name, sections, args); n counts the calls of new_uuid so far, and
\* t1, t2 are the two readings of the clock (the default issuer name is written
\* without its accents)
build_vc(nm, sections, a, n, t1, t2) ==
    LET n1   == IF Truthy(a.subject_id) THEN n ELSE n + 1
        base == [id           |-> IF Truthy(a.subject_id) THEN a.subject_id
                                  ELSE JStr(new_uuid(n)),
                 type         |-> JStr(<<"ResumeSubject">>),
                 personalData |-> personal(nm, a)]
        secs == build_sections(sections, base, n1)
        subj == guarantee(secs.fields, secs.n)
        n2   == IF Truthy(a.issuer_id) THEN subj.n ELSE subj.n + 1
        issuer == JDict([type |-> JStr(<<"Organization">>),
                         id   |-> IF Truthy(a.issuer_id) THEN a.issuer_id
                                  ELSE JStr(new_uuid(subj.n)),
                         name |-> IF Truthy(a.issuer_name) THEN a.issuer_name
                                  ELSE JStr(<<"Self-issued resume builder">>)])
        proof == JDict([type               |-> JStr(<<"JsonWebSignature2020">>),
                        created            |-> JStr(t2),
                        proofPurpose       |-> JStr(<<"assertionMethod">>),
                        verificationMethod |-> JStr(new_uuid(n2 + 1)),
                        jws                |-> JStr(<<>>)])
        body == ("@context" :> JList(<<JStr(<<"https://www.w3.org/2018/credentials/v1">>),
                                       JStr(LER_RS_CONTEXT)>>))
                @@ [type |-> JList(<<JStr(<<"VerifiableCredential">>),
                                     JStr(<<"ProvisionalVerifiableCredentialResume">>)>>),
                    id   |-> JStr(new_uuid(n2)),
                    credentialSchema  |-> LER_RS_SCHEMA,
                    issuer            |-> issuer,
                    issuanceDate      |-> JStr(t1),
                    credentialSubject |-> JDict(subj.fields),
                    proof             |-> proof]
    IN  [vc |-> JDict(IF Truthy(nm)
                      THEN body @@ ("name" :> JStr(nm.s \o <<" ","EN"," ","R","e","s","u","m","e">>))
                      ELSE body),
         n  |-> n2 + 2]

(***************************************************************************)
(* replace_nulls                                                           *)
(***************************************************************************)
Unknown == JStr(<<"U","n","k","n","o","w","n">>)

\* variant: an empty list stays empty
RECURSIVE replace_nulls_keep_empty(_)
replace_nulls_keep_empty(o) ==
    IF o.t = "null" THEN Unknown
    ELSE IF o.t = "list"
    THEN JList([i \in 1..Len(o.items) |-> replace_nulls_keep_empty(o.items[i])])
    ELSE IF o.t = "dict"
    THEN JDict([k \in DOMAIN o.fields |-> replace_nulls_keep_empty(o.fields[k])])
    ELSE o

\* replace_nulls(obj)
RECURSIVE replace_nulls(_)
replace_nulls(o) ==
    IF o.t = "null" THEN Unknown
    ELSE IF o.t = "list"
    THEN LET xs == [i \in 1..Len(o.items) |-> replace_nulls(o.items[i])]
         IN  JList(IF xs # <<>> THEN xs ELSE <<Unknown>>)
    ELSE IF o.t = "dict"
    THEN JDict([k \in DOMAIN o.fields |-> replace_nulls(o.fields[k])])
    ELSE o

\* main: vc = replace_nulls(vc); vc["proof"]["jws"] = vc["proof"]["jws"] or "dummy"
normalize(v) ==
    LET r == replace_nulls(v)
    IN  IF "proof" \in DOMAIN r.fields /\ "jws" \in DOMAIN r.fields.proof.fields
        THEN [r EXCEPT !.fields.proof.fields.jws =
                  IF Truthy(@) THEN @ ELSE JStr(<<"d","u","m","m","y">>)]
        ELSE r

(***************************************************************************)
(* Inputs                                                                  *)
(***************************************************************************)
\* pieces a Position text is made of
Chunks ==
    { <<"l","e","a","d">>, <<"L","e","a","d">>, <<"x">>, <<" ">>, <<"-">>, <<" ","-"," ">>, <<"\t","EN","\t">> }

RECURSIVE ChunkTexts(_)
ChunkTexts(n) ==
    IF n = 0 THEN {<<>>}
    ELSE LET T == ChunkTexts(n - 1) IN T \cup {s \o c : s \in T, c \in Chunks}

\* to_position is called on stripped, non-empty paragraph text only
PositionTexts == {s \in ChunkTexts(MaxChunks) : s # <<>> /\ strip(s) = s}

\* nested values: None, a str, a list, a dict
Scalars == {JNull, JStr(<<"x">>)}

RECURSIVE Values(_)
Values(d) ==
    IF d = 0 THEN Scalars
    ELSE LET V == Values(d - 1)
         IN  Scalars
             \cup {JList(<<>>)} \cup {JList(<<v>>) : v \in V}
             \cup {JList(<<v, s>>) : v \in V, s \in Scalars}
             \cup {JDict(<<>>)} \cup {JDict([k |-> v]) : v \in V}

\* paragraphs a document is made of: p.text and p.style
Para(txt, style) == [text |-> txt, style |-> style]

DocParas ==
    { Para(<<"J","a","n","e"," ","Q"," ","P","u","b","l","i","c">>,     JStr(<<"T","i","t","l","e">>)),
      Para(<<"A","C","M","E"," ","C","O","R","P"," ","I","N","C">>,     JStr(<<"H","e","a","d","i","n","g"," ","1">>)),
      Para(<<"E","x","p","e","r","i","e","n","c","e">>,        JStr(<<"H","e","a","d","i","n","g"," ","2">>)),
      Para(<<"W","O","R","K"," ","H","I","S","T","O","R","Y">>,      JNull),
      Para(<<"E","d","u","c","a","t","i","o","n">>,         JStr(<<"H","e","a","d","i","n","g"," ","3">>)),
      Para(<<"S","K","I","L","L","S">>,            JStr(<<"h","e","a","d","i","n","g"," ","2">>)),
      Para(<<"H","o","n","o","r","s">>,            JStr(<<"H","e","a","d","i","n","g"," ","4">>)),
      Para(<<"M","Y"," ","H","O","B","B","I","E","S">>,        JStr(<<"N","o","r","m","a","l">>)),
      Para(<<"A","n","a","l","y","s","t"," ","-"," ","A","c","m","e">>,    JStr(<<"N","o","r","m","a","l">>)),
      Para(<<" ","P","y","t","h","o","n","\t">>,         JStr(<<"L","i","s","t"," ","P","a","r","a","g","r","a","p","h">>)),
      Para(<<" "," ">>,                JStr(<<"N","o","r","m","a","l">>)) }

Arg(given, family, email, phone, sid, iid, iname) ==
    [given_name |-> given, family_name |-> family, email |-> email, phone |-> phone,
     subject_id |-> sid, issuer_id |-> iid, issuer_name |-> iname]

NoArgs == Arg(JNull, JNull, JNull, JNull, JNull, JNull, JNull)

\* an option is absent, given empty, or given
OptNames == {JNull, JStr(<<>>), JStr(<<"J",".">>)}
OptMails == {JNull, JStr(<<>>), JStr(<<"j","@","x",".","o","r","g">>)}
OptIds   == {JNull, JStr(<<"d","i","d",":","e","x",":","1">>)}

AllArgs ==
    { Arg(g, f, e, p, s, i, n) :
        g \in OptNames, f \in OptNames, e \in OptMails, p \in OptMails,
        s \in OptIds, i \in OptIds, n \in {JNull} }

Instants == <<<<"2025-01-01T00:00:00+00:00">>, <<"2025-01-01T00:00:01+00:00">>>>

\* results of parse_docx handed to build_vc
VCNames == {JNull, JStr(<<"J","a","n","e"," ","Q"," ","P","u","b","l","i","c">>), JStr(<<"C","h","e","r">>), JStr(<<"J","a","n","e","\t","D","o","e">>)}

VCSections ==
    { <<>>,
      <<[k |-> <<"S","k","i","l","l","s">>, v |-> <<<<"P","y","t","h","o","n">>, <<"G","o">>>>]>>,
      <<[k |-> <<"E","X","P","E","R","I","E","N","C","E">>, v |-> <<<<"S","o","f","t","w","a","r","e"," ","E","n","g","i","n","e","e","r"," ","EN"," ","A","c","m","e"," ","C","o","r","p">>>>],
        [k |-> <<"A","w","a","r","d","s">>, v |-> <<>>]>> }

(***************************************************************************)
(* The run of main: parse_docx, build_vc, replace_nulls                    *)
(***************************************************************************)
Idle ==
    /\ text = <<>> /\ obj = JNull /\ ret = JNull
    /\ vc = JNull /\ nextId = 0

Init ==
    /\ pc = "parse"
    /\ paras = <<>> /\ name = JNull /\ current = JNull /\ out = <<>>
    /\ args = NoArgs
    /\ clock = <<Instants[1], Instants[1]>>
    /\ Idle

\* for p in doc.paragraphs: one iteration
ParseParagraph(p) ==
    LET r == parse_docx_step(name, current, out, p)
    IN  /\ pc = "parse"
        /\ Len(paras) < MaxParas
        /\ paras' = Append(paras, p)
        /\ name' = r.name
        /\ current' = r.current
        /\ out' = r.out
        /\ UNCHANGED <<pc, text, obj, ret, args, vc, clock, nextId>>

\* return name, out;  vc = build_vc(name, sections, args)
BuildVC ==
    LET r == build_vc(name, out, args, nextId, clock[1], clock[2])
    IN  /\ pc = "parse"
        /\ vc' = r.vc
        /\ nextId' = r.n
        /\ pc' = "built"
        /\ UNCHANGED <<text, obj, ret, paras, name, current, out, args, clock>>

\* vc = replace_nulls(vc) and the jws placeholder; the document is written
Normalize ==
    /\ pc = "built"
    /\ vc' = normalize(vc)
    /\ pc' = "done"
    /\ UNCHANGED <<text, obj, ret, paras, name, current, out, args, clock, nextId>>

Next ==
    \/ \E p \in DocParas : ParseParagraph(p)
    \/ BuildVC
    \/ Normalize

Spec == Init /\ [][Next]_vars

(***************************************************************************)
(* build_vc over the option values                                         *)
(***************************************************************************)
InitVC ==
    /\ pc = "parse"
    /\ paras = <<>> /\ current = JNull
    /\ name \in VCNames
    /\ out \in VCSections
    /\ args \in AllArgs
    /\ clock \in {<<Instants[1], Instants[1]>>, <<Instants[1], Instants[2]>>}
    /\ Idle

NextVC == BuildVC \/ Normalize

SpecVC == InitVC /\ [][NextVC]_vars

(***************************************************************************)
(* to_position over Position texts                                         *)
(***************************************************************************)
Parked ==
    /\ paras = <<>> /\ name = JNull /\ current = JNull /\ out = <<>>
    /\ args = NoArgs /\ vc = JNull /\ nextId = 0
    /\ clock = <<Instants[1], Instants[1]>>

InitPos ==
    /\ pc = "to_position"
    /\ text \in PositionTexts
    /\ obj = JNull /\ ret = JNull
    /\ Parked

CallToPosition ==
    /\ pc = "to_position"
    /\ ret' = to_position(text, nextId)
    /\ nextId' = nextId + 1
    /\ pc' = "returned"
    /\ UNCHANGED <<text, obj, paras, name, current, out, args, vc, clock>>

NextPos == CallToPosition

SpecPos == InitPos /\ [][NextPos]_vars

(***************************************************************************)
(* replace_nulls over nested values                                        *)
(***************************************************************************)
InitNulls ==
    /\ pc = "replace_nulls"
    /\ obj \in Values(MaxDepth)
    /\ text = <<>> /\ ret = JNull
    /\ Parked

CallReplaceNulls ==
    /\ pc = "replace_nulls"
    /\ ret' = replace_nulls(obj)
    /\ pc' = "returned"
    /\ UNCHANGED <<text, obj, paras, name, current, out, args, vc, clock, nextId>>

NextNulls == CallReplaceNulls

SpecNulls == InitNulls /\ [][NextNulls]_vars

(***************************************************************************)
(* Reading the credential                                                  *)
(***************************************************************************)
KeySet == {CanonicalKeys[i] : i \in 1..Len(CanonicalKeys)}

Subject == vc.fields.credentialSubject.fields

Present == {k \in KeySet : k \in DOMAIN Subject}

Collection(k) == IF k \in DOMAIN Subject THEN Subject[k].items ELSE <<>>

\* the paragraph text a record carries
RecText(r) == IF "name" \in DOMAIN r.fields THEN r.fields.name ELSE r.fields.description

\* the records made from paragraphs (the injected fallback carries no text)
FromParas(k) == SelectSeq(Collection(k), LAMBDA r : RecText(r) # JNull)

TypeOf(k) ==
    CASE k = "positionHistory"  -> <<"P","o","s","i","t","i","o","n">>
      [] k = "educationHistory" -> <<"E","d","u","c","a","t","i","o","n">>
      [] k = "competency"       -> <<"C","o","m","p","e","t","e","n","c","y">>
      [] k = "achievements"     -> <<"A","c","h","i","e","v","e","m","e","n","t">>

RECURSIVE Flatten(_)
Flatten(ss) == IF ss = <<>> THEN <<>> ELSE Head(ss) \o Flatten(Tail(ss))

RECURSIVE Ascending(_)
Ascending(S) ==
    IF S = {} THEN <<>>
    ELSE LET m == CHOOSE x \in S : \A y \in S : x <= y
         IN  <<m>> \o Ascending(S \ {m})

Count(x, s) == Cardinality({i \in 1..Len(s) : s[i] = x})

\* the mapping table read directly: the canonical key of a heading text
TableKey(h) ==
    LET low == strip(lower(h))
        hit == {e \in SECTION_MAP : e.head = low}
    IN  IF hit = {} THEN NoKey ELSE (CHOOSE e \in hit : TRUE).key

(***************************************************************************)
(* Reading the paragraph stream                                            *)
(***************************************************************************)
Txt(j) == strip(paras[j].text)

Kind(j) ==
    IF Txt(j) = <<>> THEN "empty"
    ELSE IF is_title_style(style_of(paras[j])) THEN "title"
    ELSE IF is_heading(style_of(paras[j]), Txt(j)) THEN "heading"
    ELSE "body"

\* the stream as classified: the trimmed text and the kind of every paragraph
RECURSIVE Classified(_)
Classified(n) ==
    IF n = 0 THEN <<>> ELSE Append(Classified(n - 1), [txt |-> Txt(n), kind |-> Kind(n)])

Stream == Classified(Len(paras))

HeadingsOf(S) == {j \in 1..Len(S) : S[j].kind = "heading"}

\* the last heading paragraph of S with text h
LastOcc(S, h) ==
    CHOOSE j \in HeadingsOf(S) :
        S[j].txt = h /\ \A i \in HeadingsOf(S) : S[i].txt = h => i <= j

\* the body paragraphs of S after paragraph j, up to the next heading
BodiesAfter(S, j) ==
    LET idx == Ascending({i \in (j + 1)..Len(S) :
                             /\ S[i].kind = "body"
                             /\ \A h \in (j + 1)..(i - 1) : S[h].kind # "heading"})
    IN  [n \in 1..Len(idx) |-> S[idx[n]].txt]

\* the heading paragraphs of S that open a heading text for the first time, for key k
FirstSeen(S, k) ==
    Ascending({j \in HeadingsOf(S) :
                  /\ TableKey(S[j].txt) = k
                  /\ \A i \in HeadingsOf(S) : i < j => S[i].txt # S[j].txt})

\* the texts collection k is to hold, in order
Expected(S, k) ==
    LET F == FirstSeen(S, k)
    IN  Flatten([n \in 1..Len(F) |-> BodiesAfter(S, LastOcc(S, S[F[n]].txt))])

\* the texts of the groups of out that the table maps to k
Routed(k) ==
    Flatten([i \in 1..Len(out) |-> IF TableKey(out[i].k) = k THEN out[i].v ELSE <<>>])

\* all records of the subject
AllRecords == Flatten([i \in 1..Len(CanonicalKeys) |-> Collection(CanonicalKeys[i])])

\* the paragraph texts the records recs carry
Texts(recs) == [n \in 1..Len(recs) |-> RecText(recs[n])]

(***************************************************************************)
(* C1: to_position, role keyword on neither side of the first separator    *)
(***************************************************************************)
HasSep(s)  == \E i \in 1..Len(s) : SepAt(s, i)
FirstSep(s) == CHOOSE i \in 1..Len(s) : SepAt(s, i) /\ \A j \in 1..(i - 1) : ~SepAt(s, j)
LeftOf(s)  == SubSeq(s, 1, FirstSep(s) - 1)
RightOf(s) == SubSeq(s, FirstSep(s) + 3, Len(s))

NoRoleCase ==
    /\ pc = "returned" /\ HasSep(text)
    /\ ~ROLE_RE(LeftOf(text)) /\ ~ROLE_RE(RightOf(text))

C2_KeywordSide ==
    pc = "returned" =>
        IF HasSep(text)
        THEN /\ (ROLE_RE(LeftOf(text)) /\ ~ROLE_RE(RightOf(text))) =>
                    /\ ret.fields.jobTitle = JStr(LeftOf(text))
                    /\ ret.fields.organization = JStr(RightOf(text))
             /\ (~ROLE_RE(LeftOf(text)) /\ ROLE_RE(RightOf(text))) =>
                    /\ ret.fields.jobTitle = JStr(RightOf(text))
                    /\ ret.fields.organization = JStr(LeftOf(text))
        ELSE /\ ret.fields.jobTitle = JStr(text)
             /\ ret.fields.organization = JNull

C2_Witness ==
    /\ pc = "returned" /\ HasSep(text)
    /\ ~ROLE_RE(LeftOf(text)) /\ ROLE_RE(RightOf(text))
    /\ HasSep(RightOf(text))
    /\ ret.fields.organization = JStr(LeftOf(text))

(***************************************************************************)
(* C3: the subject holds a non-empty canonical collection                  *)
(***************************************************************************)
NoContribution == \A i \in 1..Len(out) : TableKey(out[i].k) = NoKey \/ out[i].v = <<>>

OnlyFallback(null) ==
    /\ Present = {"positionHistory"}
    /\ Len(Collection("positionHistory")) = 1
    /\ LET r == Collection("positionHistory")[1].fields
       IN  /\ r.type = JStr(<<"P","o","s","i","t","i","o","n">>)
           /\ r.jobTitle = null /\ r.organization = null /\ r.description = null

\* C3: the subject has at least one canonical collection and none that is empty;
\* when no recognized heading contributed a record it has positionHistory alone,
\* holding one Position whose three fields are null, "Unknown" once normalized.
C3_SubjectGuarantee ==
    /\ pc \in {"built", "done"} =>
           /\ Present # {}
           /\ \A k \in Present : Collection(k) # <<>>
    /\ (pc = "built" /\ NoContribution) => OnlyFallback(JNull)
    /\ (pc = "done" /\ NoContribution) => OnlyFallback(Unknown)

C3_Witness ==
    /\ pc = "done" /\ out = <<>> /\ Len(paras) >= 2
    /\ OnlyFallback(Unknown)

(***************************************************************************)
(* C4: heading routing                                                     *)
(***************************************************************************)
\* C4: every paragraph grouped under a heading the table maps to k gives one
\* record of k's type in collection k, and a paragraph grouped under another
\* heading or under none gives no record.
C4_Routing ==
    pc = "built" =>
        /\ \A k \in KeySet :
              LET routed == Routed(k)
                  made   == FromParas(k)
              IN  /\ \A i \in 1..Len(made) : made[i].fields.type = JStr(TypeOf(k))
                  /\ Len(made) = Len(routed)
                  /\ \A i \in 1..Len(routed) :
                         Count(JStr(routed[i]), Texts(made)) = Count(routed[i], routed)
        /\ LET routed == Flatten([i \in 1..Len(CanonicalKeys) |-> Routed(CanonicalKeys[i])])
               made   == AllRecords
           IN  \A j \in 1..Len(paras) :
                   LET t == Txt(j)
                   IN  Count(t, routed) = 0 => Count(JStr(t), Texts(made)) = 0

C4_Witness ==
    /\ pc = "built"
    /\ Len(FromParas("competency")) = 1
    /\ \E i \in 1..Len(out) : TableKey(out[i].k) = NoKey /\ out[i].v # <<>>

(***************************************************************************)
(* C5: headings of one canonical key accumulate in order                   *)
(***************************************************************************)
\* C5: the records of a canonical key are those of its headings in the order the
\* headings were first met in the document, each heading's in paragraph order.
C5_AliasOrder ==
    pc = "built" =>
        LET S == Stream
        IN  \A k \in KeySet :
                LET want == Expected(S, k)
                IN  Texts(FromParas(k)) = [n \in 1..Len(want) |-> JStr(want[n])]

C5_Witness ==
    /\ pc = "built"
    /\ Len(FirstSeen(Stream, "positionHistory")) = 2
    /\ Len(FromParas("positionHistory")) = 2
    /\ RecText(FromParas("positionHistory")[1]) # RecText(FromParas("positionHistory")[2])

(***************************************************************************)
(* C6: record identifiers are pairwise distinct                            *)
(***************************************************************************)
\* C6: the ids of all records of a credential, the fallback included, differ
\* pairwise, within a record type and across types.
C6_DistinctIds ==
    pc \in {"built", "done"} =>
        \A i, j \in 1..Len(AllRecords) :
            i # j => AllRecords[i].fields.id # AllRecords[j].fields.id

C6_Witness ==
    /\ pc = "done"
    /\ Len(Collection("educationHistory")) = 1
    /\ Len(Collection("positionHistory")) = 1

(***************************************************************************)
(* C7: replace_nulls is idempotent and leaves no null and no empty list    *)
(***************************************************************************)
RECURSIVE Clean(_)
Clean(o) ==
    CASE o.t = "null" -> FALSE
      [] o.t = "list" -> o.items # <<>> /\ \A i \in 1..Len(o.items) : Clean(o.items[i])
      [] o.t = "dict" -> \A k \in DOMAIN o.fields : Clean(o.fields[k])
      [] OTHER        -> TRUE

Personal == Subject.personalData.fields

\* C8: personalData has the four keys; an option that is given (and not empty)
\* is the value; otherwise givenName is the first token of the title, familyName
\* its last token when it has more than one, and null without these.
C8_PersonalData ==
    pc = "built" =>
        /\ DOMAIN Personal = {"givenName", "familyName", "email", "phone"}
        /\ Personal.givenName =
              IF Truthy(args.given_name) THEN args.given_name
              ELSE IF name = JNull THEN JNull
              ELSE JStr(Head(split(name.s)))
        /\ Personal.familyName =
              IF Truthy(args.family_name) THEN args.family_name
              ELSE IF name = JNull \/ Len(split(name.s)) = 1 THEN JNull
              ELSE JStr(split(name.s)[Len(split(name.s))])
        /\ Personal.email = (IF Truthy(args.email) THEN args.email ELSE JNull)
        /\ Personal.phone = (IF Truthy(args.phone) THEN args.phone ELSE JNull)

C8_Witness ==
    /\ pc = "built"
    /\ name = JStr(<<"C","h","e","r">>)
    /\ Truthy(args.given_name) /\ args.family_name = JNull
    /\ Personal.givenName = args.given_name /\ Personal.familyName = JNull

(***************************************************************************)
(* C9: title capture                                                       *)
(***************************************************************************)
\* C9: the title is the text of the first non-empty title-styled paragraph, and a
\* later title-styled paragraph leaves the title, the open group and all groups as
\* they are.
C9_TitleCapture ==
    [][ (pc = "parse" /\ pc' = "parse") =>
          LET j == Len(paras')
              t == strip(paras'[j].text)
              titled == t # <<>> /\ is_title_style(style_of(paras'[j]))
          IN  /\ name # JNull => name' = name
              /\ (name = JNull /\ titled) => name' = JStr(t)
              /\ (name = JNull /\ ~titled) => name' = JNull
              /\ titled => (current' = current /\ out' = out) ]_vars

C9_Witness ==
    /\ pc = "parse"
    /\ Len(paras) = 4
    /\ Kind(2) = "title" /\ Kind(4) = "title"
    /\ looks_like_heading(Txt(4))
    /\ name = JStr(Txt(2)) /\ Txt(2) # Txt(4)
    /\ current # JNull /\ current.s # Txt(4)
    /\ out # <<>> /\ out[Len(out)].v # <<>>

(***************************************************************************)
(* C10: a repeated heading resets its group                                *)
(***************************************************************************)
\* C10: a group holds the body paragraphs that follow the last heading of its
\* text, up to the next heading, and none collected under an earlier one.
C10_RepeatedHeading ==
    pc = "parse" =>
    LET S == Stream
    IN  /\ Len(out) = Cardinality({S[j].txt : j \in HeadingsOf(S)})
        /\ \A i \in 1..Len(out) :
              /\ \E j \in HeadingsOf(S) : S[j].txt = out[i].k
              /\ out[i].v = BodiesAfter(S, LastOcc(S, out[i].k))

C10_Witness ==
    /\ Len(paras) = 4
    /\ Kind(1) = "heading" /\ Kind(2) = "body" /\ Kind(3) = "heading" /\ Kind(4) = "body"
    /\ Txt(1) = Txt(3) /\ Txt(2) # Txt(4)
    /\ out = <<[k |-> Txt(1), v |-> <<Txt(4)>>]>>

====
